---- MODULE Spec2Model ----
(***************************************************************************)
(* Model of moat/middleware.py: MoatMiddleware, the sitewide Basic-Auth    *)
(* gate.  The code is Python 2 / old-style Django middleware; the          *)
(* behaviour of the library calls it makes (str.split, str.lower,          *)
(* base64.b64decode, re.search, django resolve, django authenticate) is    *)
(* modelled by what those calls do in that environment.                    *)
(*                                                                         *)
(* Python str values are TLA+ strings; Python lists are sequences; dicts   *)
(* (settings attributes, request.META, request.session) are functions on   *)
(* a set of string keys, so that "key in dict" is "key \in DOMAIN dict".   *)
(* An optional value (None or v) is the sequence <<>> or <<v>>.            *)
(***************************************************************************)
EXTENDS Integers, Sequences, FiniteSets, TLC

VARIABLES
  settings,  \* django.conf.settings: attribute name -> value
  mw,        \* the MoatMiddleware instance (the fields __init__ sets)
  session,   \* request.session of the one client session: key -> value
  verified,  \* user names authenticate() has answered with a staff user
  pc,        \* "idle", "pending" (request received) or "done" (answered)
  req,       \* the request being processed, or processed last
  outcome,   \* what process_request returned or raised for req
  inflight   \* per worker: the request suspended after the session read

vars == <<settings, mw, session, verified, pc, req, outcome, inflight>>

-----------------------------------------------------------------------------
(* Strings *)

EmptyDict == [k \in {} |-> ""]

CharAt(s, i) == SubSeq(s, i, i)

\* printable ASCII: codes 32 (space) to 95 (_) and 97 (a) to 126 (~); code 96
\* (the grave accent) cannot be written in a TLA+ string and is left out
AsciiLow == " !\"#$%&'(" \o ")*+,-./0123456789:;<=>?@ABCDEFGHIJKLMNOPQRSTUVWXYZ[\\]^_"

AsciiHigh == "abcdefghijklmnopqrstuvwxyz{|}~"

\* chr() on the printable range; the inputs below decode to printable bytes
Chr(n) ==
  IF n >= 32 /\ n < 32 + Len(AsciiLow)
  THEN CharAt(AsciiLow, n - 32 + 1)
  ELSE IF n >= 97 /\ n < 97 + Len(AsciiHigh)
  THEN CharAt(AsciiHigh, n - 97 + 1)
  ELSE "?"

\* position of the one-character string c in table, 0 if it is not there
IndexIn(c, table) ==
  IF \E i \in 1..Len(table) : CharAt(table, i) = c
  THEN CHOOSE i \in 1..Len(table) : CharAt(table, i) = c
  ELSE 0

\* ord() on the printable range
Ord(c) ==
  IF IndexIn(c, AsciiLow) # 0
  THEN IndexIn(c, AsciiLow) + 32 - 1
  ELSE IndexIn(c, AsciiHigh) + 97 - 1

UpperCase == "ABCDEFGHIJKLMNOPQRSTUVWXYZ"
LowerCase == "abcdefghijklmnopqrstuvwxyz"

\* variant: the scheme is compared as it was sent
lower_unchanged(s) == s

RECURSIVE lower(_)
\* str.lower()
lower(s) ==
  IF s = "" THEN ""
  ELSE LET c == Head(s)
           k == IndexIn(c, UpperCase)
       IN  (IF k = 0 THEN c ELSE CharAt(LowerCase, k)) \o lower(Tail(s))

Whitespace == {" ", "\t"}

RECURSIVE split_ws(_, _)
\* str.split() with no separator: split on runs of whitespace, no empty
\* tokens; cur is the token being accumulated
split_ws(s, cur) ==
  IF s = "" THEN (IF cur = "" THEN <<>> ELSE <<cur>>)
  ELSE IF Head(s) \in Whitespace
       THEN (IF cur = "" THEN <<>> ELSE <<cur>>) \o split_ws(Tail(s), "")
       ELSE split_ws(Tail(s), cur \o Head(s))

RECURSIVE split_sep(_, _, _)
\* str.split(sep) for a one-character separator: every occurrence splits,
\* empty fields are kept
split_sep(s, sep, cur) ==
  IF s = "" THEN <<cur>>
  ELSE IF Head(s) = sep
       THEN <<cur>> \o split_sep(Tail(s), sep, "")
       ELSE split_sep(Tail(s), sep, cur \o Head(s))

startswith(s, prefix) ==
  Len(prefix) <= Len(s) /\ SubSeq(s, 1, Len(prefix)) = prefix

\* variant: re.match, which only matches at the start of the string
re_match(pattern, s) ==
  IF pattern # "" /\ Head(pattern) = "^"
  THEN startswith(s, Tail(pattern))
  ELSE startswith(s, pattern)

\* re.compile(p).search(s) for the patterns used here: a literal, optionally
\* anchored at the start with "^"
re_search(pattern, s) ==
  IF pattern # "" /\ Head(pattern) = "^"
  THEN startswith(s, Tail(pattern))
  ELSE \E i \in 1..(Len(s) + 1) :
         i + Len(pattern) - 1 <= Len(s)
         /\ SubSeq(s, i, i + Len(pattern) - 1) = pattern

-----------------------------------------------------------------------------
(* base64.b64decode (Python 2: binascii.a2b_base64, TypeError on          *)
(* binascii.Error)                                                        *)

B64Alphabet == "ABCDEFGHIJKLMNOPQRSTUVWXYZabcdefghijklmnopqrstuvwxyz0123456789+/"

B64Pad == "="

Pow2(n) == IF n = 0 THEN 1 ELSE IF n = 2 THEN 4 ELSE IF n = 4 THEN 16
           ELSE IF n = 6 THEN 64 ELSE 256

RECURSIVE find_valid(_, _)
\* binascii_find_valid: the (num+1)th valid base64 character of s, "" if none
find_valid(s, num) ==
  IF s = "" THEN ""
  ELSE IF Head(s) = B64Pad \/ IndexIn(Head(s), B64Alphabet) # 0
       THEN (IF num = 0 THEN Head(s) ELSE find_valid(Tail(s), num - 1))
       ELSE find_valid(Tail(s), num)

RECURSIVE a2b_base64(_, _, _, _, _)
a2b_base64(s, quad_pos, leftchar, leftbits, out) ==
  IF s = "" THEN [ok |-> leftbits = 0, data |-> out]
  ELSE LET c == Head(s) IN
    IF c = B64Pad
    THEN IF quad_pos < 2 \/ (quad_pos = 2 /\ find_valid(s, 1) # B64Pad)
         THEN a2b_base64(Tail(s), quad_pos, leftchar, leftbits, out)
         ELSE [ok |-> TRUE, data |-> out]
    ELSE IF IndexIn(c, B64Alphabet) = 0
    THEN a2b_base64(Tail(s), quad_pos, leftchar, leftbits, out)
    ELSE LET ch   == IndexIn(c, B64Alphabet) - 1
             lc   == leftchar * 64 + ch
             bits == leftbits + 6
         IN  IF bits >= 8
             THEN a2b_base64(Tail(s), (quad_pos + 1) % 4,
                             lc % Pow2(bits - 8), bits - 8,
                             out \o Chr((lc \div Pow2(bits - 8)) % 256))
             ELSE a2b_base64(Tail(s), (quad_pos + 1) % 4, lc, bits, out)

\* [ok |-> FALSE] is "raise TypeError"
b64decode(s) == a2b_base64(s, 0, 0, 0, "")

-----------------------------------------------------------------------------
(* Collaborators: settings, URLconf, user database *)

\* getattr(obj, name, default)
getattr(obj, name, default) == IF name \in DOMAIN obj THEN obj[name] ELSE default

Option(d, key) == IF key \in DOMAIN d THEN <<d[key]>> ELSE <<>>

\* the URLconf of the site: path -> view function (__module__, __name__);
\* resolve() raises Resolver404 for a path that is not in it
Urlconf ==
  [p \in {"/shop/cart", "/shop/status", "/shop/pub/x", "/open/doc", "/admin/",
          "/go", "/static/a.css"} |->
     CASE p = "/shop/cart"    -> [module |-> "shop.views", name |-> "cart"]
       [] p = "/shop/status"  -> [module |-> "shop.views", name |-> "status"]
       [] p = "/shop/pub/x"   -> [module |-> "shop.views", name |-> "pub"]
       [] p = "/open/doc"     -> [module |-> "shop.open", name |-> "doc"]
       [] p = "/admin/"       -> [module |-> "django.contrib.admin.sites",
                                  name |-> "index"]
       [] p = "/go"           -> [module |-> "django.views.generic.simple",
                                  name |-> "redirect_to"]
       [] p = "/static/a.css" -> [module |-> "django.views.static",
                                  name |-> "serve"]]

\* django.core.urlresolvers.resolve(path).func, <<>> for Resolver404
resolve(path) == Option(Urlconf, path)

\* the user database behind django.contrib.auth
Users ==
  {[username |-> "a", password |-> "x", is_staff |-> TRUE],
   [username |-> "b", password |-> "y", is_staff |-> FALSE],
   [username |-> "c", password |-> "z", is_staff |-> TRUE]}

\* django.contrib.auth.authenticate: the user, or None
authenticate(username, password) ==
  IF \E u \in Users : u.username = username /\ u.password = password
  THEN <<CHOOSE u \in Users : u.username = username /\ u.password = password>>
  ELSE <<>>

-----------------------------------------------------------------------------
(* MoatMiddleware *)

\* What process_request hands back to the handler.  kind is "Allow" (return
\* None), "Redirect", "Challenge" or "Raise"; step names the check that
\* ended the request; moat_username is what line 62 read from the session
\* when that read ended the request.
Response(kind, step, status_code, location, www_authenticate, exc, seen) ==
  [kind |-> kind, step |-> step, status_code |-> status_code,
   Location |-> location, WWW_Authenticate |-> www_authenticate,
   exc |-> exc, moat_username |-> seen]

ReturnNone(step) == Response("Allow", step, 0, "", "", "", <<>>)

Raise(exc, step) == Response("Raise", step, 0, "", "", exc, <<>>)

\* A finished (part of a) call: returned is FALSE when control falls
\* through to the next line; write is the value stored under
\* session['moat_username'], if any; staff is the username for which
\* authenticate() returned a staff user, if any.
Returned(resp, write, staff) ==
  [returned |-> TRUE, resp |-> resp, write |-> write, staff |-> staff]

FallThrough ==
  [returned |-> FALSE, resp |-> ReturnNone(""), write |-> <<>>, staff |-> <<>>]

__init__(s) ==
  [always_allow_modules |-> getattr(s, "MOAT_ALWAYS_ALLOW_MODULES", <<>>),
   always_allow_views   |-> getattr(s, "MOAT_ALWAYS_ALLOW_VIEWS", <<>>),
   always_allow_urls    |-> getattr(s, "MOAT_ALWAYS_ALLOW_URLS", <<>>),
   allow_admin          |-> getattr(s, "MOAT_ALLOW_ADMIN", FALSE),
   debug_disable_https  |-> getattr(s, "MOAT_DEBUG_DISABLE_HTTPS", FALSE)]

\* variant: a missing MOAT_ENABLED switches the gate off
globally_disabled_when_absent(s) ==
  "MOAT_ENABLED" \notin DOMAIN s \/ ~s["MOAT_ENABLED"]

\* lines 50-54: settings.MOAT_ENABLED is there and false; a missing
\* attribute raises AttributeError, which is passed over
globally_disabled(s) ==
  "MOAT_ENABLED" \in DOMAIN s /\ ~s["MOAT_ENABLED"]

\* lines 56-59
url_is_allowed(self, request) ==
  \E i \in 1..Len(self.always_allow_urls) :
    re_search(self.always_allow_urls[i], request.path)

In(x, list) == \E i \in 1..Len(list) : list[i] = x

\* lines 69-87, for a resolved view function
view_is_whitelisted(self, view_func) ==
  LET whitelisted_modules == self.always_allow_modules
      whitelisted_views ==
        <<"django.views.generic.simple.redirect_to">>
          \o self.always_allow_views
      full_view_name == view_func.module \o "." \o view_func.name
  IN  IF In(full_view_name, whitelisted_views) THEN "view"
      ELSE IF In(view_func.module, whitelisted_modules) THEN "module"
      ELSE IF self.allow_admin
              /\ startswith(view_func.module, "django.contrib.admin")
           THEN "admin"
      ELSE ""

\* variant: every request is taken to be secure
is_secure_always(request) == TRUE

\* lines 91-93 and request.is_secure() at line 96
is_secure(request) ==
  IF "HTTP_X_FORWARDED_PROTO" \in DOMAIN request.META
     /\ request.META["HTTP_X_FORWARDED_PROTO"] = "https"
  THEN TRUE
  ELSE request.secure

get_full_path(request) ==
  request.path \o (IF request.query = "" THEN "" ELSE "?" \o request.query)

\* variant: the redirect goes to the path without the query string
_redirect_without_query(s, request) ==
  LET newurl == "https://" \o request.host \o request.path
  IN  IF s["DEBUG"] /\ request.method = "POST"
      THEN Raise("RuntimeError", "https")
      ELSE Response("Redirect", "https", 307, newurl, "", "", <<>>)

_redirect(s, request) ==
  LET newurl == "https://" \o request.host \o get_full_path(request)
  IN  IF s["DEBUG"] /\ request.method = "POST"
      THEN Raise("RuntimeError", "https")
      ELSE Response("Redirect", "https", 307, newurl, "", "", <<>>)

\* lines 129-139
challenge(s) ==
  LET realm == getattr(s, "HTTP_AUTH_REALM", "")
  IN  Response("Challenge", "auth", 401, "",
               "Basic realm=\"" \o realm \o "\"", "", <<>>)

\* the username authenticate() answered with, when it is a staff user
StaffName(user) ==
  IF user # <<>> /\ user[1].is_staff THEN <<user[1].username>> ELSE <<>>

\* variant: any authenticated user may enter, staff or not
user_may_enter_any(user) == user # <<>>

\* line 123: user and user.is_staff
user_may_enter(user) == user # <<>> /\ user[1].is_staff

_http_auth_helper(s, request) ==
  LET auth == IF "HTTP_AUTHORIZATION" \in DOMAIN request.META
              THEN split_ws(request.META["HTTP_AUTHORIZATION"], "")
              ELSE <<>>
  IN  IF "HTTP_AUTHORIZATION" \in DOMAIN request.META
         /\ Len(auth) = 2 /\ lower(auth[1]) = "basic"
      THEN LET decoded == b64decode(auth[2])
               parts   == split_sep(decoded.data, ":", "")
               uname   == parts[1]
               passwd  == parts[2]
               user    == authenticate(uname, passwd)
           IN  IF ~decoded.ok
               THEN Returned(Raise("TypeError", "auth"), <<>>, <<>>)
               ELSE IF Len(parts) # 2
               THEN Returned(Raise("ValueError", "auth"), <<>>, <<>>)
               ELSE IF user_may_enter(user)
               THEN Returned(ReturnNone("auth"), <<uname>>,
                             StaffName(user))
               ELSE Returned(challenge(s), <<>>, StaffName(user))
      ELSE Returned(challenge(s), <<>>, <<>>)

\* variant: the session is asked for another key
already_authenticated_other_key(sess) == Option(sess, "username") # <<>>

\* line 62
already_authenticated(sess) == Option(sess, "moat_username") # <<>>

\* lines 49-67: up to and including the read of the session
process_request_head(s, self, request, sess) ==
  IF globally_disabled(s)
  THEN Returned(ReturnNone("kill_switch"), <<>>, <<>>)
  ELSE IF url_is_allowed(self, request)
  THEN Returned(ReturnNone("url"), <<>>, <<>>)
  ELSE IF already_authenticated(sess)
  THEN Returned(Response("Allow", "session", 0, "", "", "",
                         Option(sess, "moat_username")), <<>>, <<>>)
  ELSE FallThrough

\* lines 69-100: route allow-lists, HTTPS enforcement, credential check
process_request_tail(s, self, request) ==
  LET view_func == resolve(request.path)
  IN  IF view_func = <<>>
      THEN Returned(Raise("Resolver404", "resolve"), <<>>, <<>>)
      ELSE IF view_is_whitelisted(self, view_func[1]) # ""
      THEN Returned(ReturnNone(view_is_whitelisted(self, view_func[1])),
                    <<>>, <<>>)
      ELSE IF ~self.debug_disable_https /\ ~is_secure(request)
      THEN Returned(_redirect(s, request), <<>>, <<>>)
      ELSE _http_auth_helper(s, request)

process_request(s, self, request, sess) ==
  LET head == process_request_head(s, self, request, sess)
  IN  IF head.returned THEN head ELSE process_request_tail(s, self, request)

\* variant: the session is replaced instead of updated
session_replaced(sess, result) ==
  IF result.write = <<>> THEN sess
  ELSE "moat_username" :> result.write[1]

\* request.session after the call
session_after(sess, result) ==
  IF result.write = <<>> THEN sess
  ELSE ("moat_username" :> result.write[1]) @@ sess

-----------------------------------------------------------------------------
(* Inputs *)

RECURSIVE b64encode(_)
\* base64.b64encode, as the client applies it to "user:password"
b64encode(s) ==
  IF s = "" THEN ""
  ELSE LET n  == Len(s)
           b1 == Ord(CharAt(s, 1))
           b2 == IF n >= 2 THEN Ord(CharAt(s, 2)) ELSE 0
           b3 == IF n >= 3 THEN Ord(CharAt(s, 3)) ELSE 0
           v  == b1 * 65536 + b2 * 256 + b3
           c1 == CharAt(B64Alphabet, ((v \div 262144) % 64) + 1)
           c2 == CharAt(B64Alphabet, ((v \div 4096) % 64) + 1)
           c3 == CharAt(B64Alphabet, ((v \div 64) % 64) + 1)
           c4 == CharAt(B64Alphabet, (v % 64) + 1)
       IN  c1 \o c2 \o (IF n >= 2 THEN c3 ELSE B64Pad)
              \o (IF n >= 3 THEN c4 ELSE B64Pad)
              \o b64encode(SubSeq(s, 4, n))

\* process-wide settings: every attribute the middleware looks at may be
\* missing, except DEBUG, which Django always defines
AllowLists ==
  ("MOAT_ALWAYS_ALLOW_URLS" :> <<"^/static", "/pub">>)
    @@ ("MOAT_ALWAYS_ALLOW_MODULES" :> <<"shop.open">>)
    @@ ("MOAT_ALWAYS_ALLOW_VIEWS" :> <<"shop.views.status">>)
    @@ ("MOAT_ALLOW_ADMIN" :> TRUE)

SettingsChoices ==
  { en @@ al @@ dh @@ rl @@ ("DEBUG" :> dbg) :
      en \in {EmptyDict, "MOAT_ENABLED" :> TRUE, "MOAT_ENABLED" :> FALSE},
      al \in {EmptyDict, AllowLists},
      dh \in {EmptyDict, "MOAT_DEBUG_DISABLE_HTTPS" :> TRUE},
      rl \in {EmptyDict, "HTTP_AUTH_REALM" :> "moat"},
      dbg \in BOOLEAN }

\* request target: path and query string
Targets ==
  {<<"/shop/cart", "">>, <<"/shop/cart", "a=1">>, <<"/shop/status", "">>,
   <<"/shop/pub/x", "">>, <<"/open/doc", "">>, <<"/admin/", "">>,
   <<"/go", "">>, <<"/static/a.css", "">>, <<"/nope", "">>}

\* raw transport flag and X-Forwarded-Proto header
Transports ==
  {<<FALSE, EmptyDict>>, <<TRUE, EmptyDict>>,
   <<FALSE, "HTTP_X_FORWARDED_PROTO" :> "https">>,
   <<FALSE, "HTTP_X_FORWARDED_PROTO" :> "http">>}

AuthorizationValues ==
  {"Basic " \o b64encode("a:x"),        \* staff user, right password
   "BASIC  " \o b64encode("a:x"),       \* upper-case scheme, two spaces
   "basic\t" \o b64encode("c:z"),       \* another staff user
   "Basic " \o b64encode("a:y"),        \* wrong password
   "Basic " \o b64encode("b:y"),        \* right password, not staff
   "Digest " \o b64encode("a:x"),       \* another scheme
   "Basic",                             \* one token
   "Basic " \o b64encode("a:x") \o " x", \* three tokens
   "",                                  \* empty header
   "Basic " \o b64encode("a"),          \* no colon
   "Basic " \o b64encode("a:x:x"),      \* two colons
   "Basic YQ"}                          \* incorrect padding

Credentials ==
  {EmptyDict} \cup {"HTTP_AUTHORIZATION" :> h : h \in AuthorizationValues}

Request(target, transport, method, cred) ==
  [path |-> target[1], query |-> target[2], host |-> "example.com",
   method |-> method, secure |-> transport[1],
   META |-> transport[2] @@ cred]

Requests ==
  { Request(t, tr, m, c) :
      t \in Targets, tr \in Transports, m \in {"GET", "POST"},
      c \in Credentials }

NoRequest == Request(<<"", "">>, <<FALSE, EmptyDict>>, "", EmptyDict)

NoResponse == Response("", "", 0, "", "", "", <<>>)

\* number of requests the server handles at the same time
NumWorkers == 2

Workers == 1..NumWorkers

-----------------------------------------------------------------------------
(* One request at a time *)

Init ==
  /\ settings \in SettingsChoices
  /\ mw = __init__(settings)
  /\ session = ("cart" :> "3")
  /\ verified = {}
  /\ pc = "idle"
  /\ req = NoRequest
  /\ outcome = NoResponse
  /\ inflight = [w \in Workers |-> NoRequest]

\* the handler receives a request
Receive(r) ==
  /\ pc = "idle"
  /\ pc' = "pending"
  /\ req' = r
  /\ outcome' = NoResponse
  /\ UNCHANGED <<settings, mw, session, verified, inflight>>

\* MoatMiddleware.process_request(request), the whole call
ProcessRequest ==
  /\ pc = "pending"
  /\ LET result == process_request(settings, mw, req, session)
     IN  /\ outcome' = result.resp
         /\ session' = session_after(session, result)
         /\ verified' = verified \cup {result.staff[i] : i \in 1..Len(result.staff)}
  /\ pc' = "done"
  /\ UNCHANGED <<settings, mw, req, inflight>>

\* the handler has answered and is ready for the next request
Respond ==
  /\ pc = "done"
  /\ pc' = "idle"
  /\ req' = NoRequest
  /\ outcome' = NoResponse
  /\ UNCHANGED <<settings, mw, session, verified, inflight>>

Next ==
  \/ \E r \in Requests : Receive(r)
  \/ ProcessRequest
  \/ Respond

Spec == Init /\ [][Next]_vars

TypeOK ==
  /\ pc \in {"idle", "pending", "done"}
  /\ outcome.kind \in {"", "Allow", "Redirect", "Challenge", "Raise"}

-----------------------------------------------------------------------------
(* Several requests of one session at the same time.  The middleware      *)
(* touches the shared session twice: the read at line 62 and the write at *)
(* line 124; a call is split between the two, so that other calls can run *)
(* in between.  req and outcome hold the request that finished last.      *)

ConcSettings ==
  { st \in SettingsChoices :
      ~st["DEBUG"] /\ "HTTP_AUTH_REALM" \notin DOMAIN st
      /\ "MOAT_DEBUG_DISABLE_HTTPS" \notin DOMAIN st }

ConcRequests ==
  { Request(<<"/shop/cart", "">>, <<TRUE, EmptyDict>>, "GET", c) :
      c \in {EmptyDict,
             "HTTP_AUTHORIZATION" :> ("Basic " \o b64encode("a:x")),
             "HTTP_AUTHORIZATION" :> ("basic\t" \o b64encode("c:z")),
             "HTTP_AUTHORIZATION" :> ("Basic " \o b64encode("b:y"))} }
  \cup {Request(<<"/shop/cart", "">>, <<FALSE, EmptyDict>>, "GET", EmptyDict),
        Request(<<"/shop/cart", "">>, <<FALSE, EmptyDict>>, "GET",
                "HTTP_AUTHORIZATION" :> ("Basic " \o b64encode("a:x"))),
        Request(<<"/open/doc", "">>, <<TRUE, EmptyDict>>, "GET", EmptyDict)}

InitConc ==
  /\ settings \in ConcSettings
  /\ mw = __init__(settings)
  /\ session = ("cart" :> "3")
  /\ verified = {}
  /\ pc = "idle"
  /\ req = NoRequest
  /\ outcome = NoResponse
  /\ inflight = [w \in Workers |-> NoRequest]

\* worker w takes a request and runs process_request up to the session read
BeginRequest(w, r) ==
  /\ inflight[w] = NoRequest
  /\ LET head == process_request_head(settings, mw, r, session)
     IN  IF head.returned
         THEN /\ req' = r
              /\ outcome' = head.resp
              /\ pc' = "done"
              /\ UNCHANGED inflight
         ELSE /\ inflight' = [inflight EXCEPT ![w] = r]
              /\ UNCHANGED <<req, outcome, pc>>
  /\ UNCHANGED <<settings, mw, session, verified>>

\* worker w runs the rest of process_request
FinishRequest(w) ==
  /\ inflight[w] # NoRequest
  /\ LET result == process_request_tail(settings, mw, inflight[w])
     IN  /\ outcome' = result.resp
         /\ session' = session_after(session, result)
         /\ verified' = verified \cup {result.staff[i] : i \in 1..Len(result.staff)}
  /\ req' = inflight[w]
  /\ pc' = "done"
  /\ inflight' = [inflight EXCEPT ![w] = NoRequest]
  /\ UNCHANGED <<settings, mw>>

NextConc ==
  \/ \E w \in Workers, r \in ConcRequests : BeginRequest(w, r)
  \/ \E w \in Workers : FinishRequest(w)

SpecConc == InitConc /\ [][NextConc]_vars

-----------------------------------------------------------------------------
(* Properties *)

Done == pc = "done"

Processing == pc = "pending" /\ pc' = "done"

HasAuthorization(r) == "HTTP_AUTHORIZATION" \in DOMAIN r.META

ForwardedHttps(r) ==
  "HTTP_X_FORWARDED_PROTO" \in DOMAIN r.META
  /\ r.META["HTTP_X_FORWARDED_PROTO"] = "https"

Insecure(r) == ~r.secure /\ ~ForwardedHttps(r)

HttpsEnforced == "MOAT_DEBUG_DISABLE_HTTPS" \notin DOMAIN settings
                 \/ ~settings["MOAT_DEBUG_DISABLE_HTTPS"]

EnabledFalse == "MOAT_ENABLED" \in DOMAIN settings /\ ~settings["MOAT_ENABLED"]

EnabledAbsent == "MOAT_ENABLED" \notin DOMAIN settings

\* p occurs somewhere in s
IsSubstring(p, s) ==
  \E i \in 0..Len(s), j \in 0..Len(s) : SubSeq(s, i + 1, j) = p

PatternMatches(p, path) ==
  IF p # "" /\ Head(p) = "^"
  THEN Len(path) >= Len(p) - 1 /\ SubSeq(path, 1, Len(p) - 1) = Tail(p)
  ELSE IsSubstring(p, path)

UrlAllowListed(r) ==
  LET urls == getattr(settings, "MOAT_ALWAYS_ALLOW_URLS", <<>>)
  IN  \E i \in 1..Len(urls) : PatternMatches(urls[i], r.path)

RouteAllowListed(r) ==
  /\ r.path \in DOMAIN Urlconf
  /\ LET v == Urlconf[r.path]
         views == getattr(settings, "MOAT_ALWAYS_ALLOW_VIEWS", <<>>)
         modules == getattr(settings, "MOAT_ALWAYS_ALLOW_MODULES", <<>>)
     IN  \/ v.module \o "." \o v.name = "django.views.generic.simple.redirect_to"
         \/ \E i \in 1..Len(views) : views[i] = v.module \o "." \o v.name
         \/ \E i \in 1..Len(modules) : modules[i] = v.module
         \/ /\ getattr(settings, "MOAT_ALLOW_ADMIN", FALSE)
            /\ Len(v.module) >= Len("django.contrib.admin")
            /\ SubSeq(v.module, 1, Len("django.contrib.admin"))
                 = "django.contrib.admin"

ExpectedLocation(r) ==
  "https://" \o r.host \o r.path
     \o (IF r.query = "" THEN "" ELSE "?" \o r.query)

ExpectedChallenge ==
  IF "HTTP_AUTH_REALM" \in DOMAIN settings
  THEN "Basic realm=\"" \o settings["HTTP_AUTH_REALM"] \o "\""
  ELSE "Basic realm=\"\""

\* the header value is "<scheme> <base64(u:p)>", scheme in any case
BasicHeaderFor(h, u, p) ==
  \E sch \in {"Basic", "BASIC", "basic"}, gap \in {" ", "  ", "\t"} :
    h = sch \o gap \o b64encode(u \o ":" \o p)

Usernames == {"a", "b", "c"}

Passwords == {"x", "y", "z"}

IsStaffLogin(u, p) ==
  \E usr \in Users : usr.username = u /\ usr.password = p /\ usr.is_staff

\* the request carries a well-formed Basic header with a staff login
PrivilegedLogin(r) ==
  /\ HasAuthorization(r)
  /\ \E u \in Usernames, p \in Passwords :
       BasicHeaderFor(r.META["HTTP_AUTHORIZATION"], u, p) /\ IsStaffLogin(u, p)

\* C1 as stated: when MOAT_ENABLED is false or absent there is no gating,
\* every request is allowed at the kill-switch.
C1_Original ==
  (Done /\ (EnabledAbsent \/ EnabledFalse))
    => (outcome.kind = "Allow" /\ outcome.step = "kill_switch")

\* C1 amended: when MOAT_ENABLED is present and false every request is
\* allowed at the kill-switch and the session is left alone; when it is
\* absent the request is gated exactly as with MOAT_ENABLED = True.
C1_Amended ==
  [][Processing =>
       /\ EnabledFalse =>
            (outcome' = ReturnNone("kill_switch") /\ session' = session)
       /\ EnabledAbsent =>
            LET on == process_request(("MOAT_ENABLED" :> TRUE) @@ settings,
                                      mw, req, session)
            IN  outcome' = on.resp /\ session' = session_after(session, on)]_vars

C1_Witness ==
  /\ Done /\ EnabledFalse /\ req.path = "/shop/cart" /\ Insecure(req)
  /\ HasAuthorization(req) /\ req.META["HTTP_AUTHORIZATION"] = "Basic YQ"
  /\ outcome = ReturnNone("kill_switch")

\* the header is "Basic <token>" and the token is not base64, or does not
\* decode to exactly one "user:password" pair
MalformedBasic(r) ==
  /\ HasAuthorization(r)
  /\ LET auth == split_ws(r.META["HTTP_AUTHORIZATION"], "")
     IN  /\ Len(auth) = 2
         /\ lower(auth[1]) = "basic"
         /\ \/ ~b64decode(auth[2]).ok
            \/ Len(split_sep(b64decode(auth[2]).data, ":", "")) # 2

\* C2: a request that reaches the credential check with a malformed Basic
\* header is answered with a 401 challenge; nothing is raised and the
\* session gets no moat_username.
C2_MalformedIsChallenged ==
  (Done /\ outcome.step = "auth" /\ MalformedBasic(req))
    => /\ outcome.kind = "Challenge"
       /\ outcome.status_code = 401
       /\ outcome.WWW_Authenticate = ExpectedChallenge
       /\ "moat_username" \notin DOMAIN session

\* C3: a request that is gated (enabled, no URL allow-list match, no
\* moat_username in the session) and whose path resolves to no route goes
\* on to enforcement: a redirect when insecure and HTTPS is enforced,
\* otherwise the result of the credential check; nothing is raised.
C3_UnresolvableIsEnforced ==
  (Done /\ ~EnabledFalse /\ ~UrlAllowListed(req)
        /\ outcome.step # "session" /\ req.path \notin DOMAIN Urlconf)
    => IF HttpsEnforced /\ Insecure(req)
       THEN outcome.kind \in {"Redirect"}
       ELSE outcome.kind \in {"Allow", "Challenge"}

C5_StaffLoginIsStored ==
  \A u \in Usernames, p \in Passwords :
    (Done /\ outcome.step = "auth" /\ HasAuthorization(req)
          /\ BasicHeaderFor(req.META["HTTP_AUTHORIZATION"], u, p)
          /\ IsStaffLogin(u, p))
      => /\ outcome = ReturnNone("auth")
         /\ "moat_username" \in DOMAIN session
         /\ session["moat_username"] = u

C5_Witness ==
  /\ Done /\ outcome.step = "auth" /\ HasAuthorization(req)
  /\ req.META["HTTP_AUTHORIZATION"] = "BASIC  YTp4"
  /\ outcome.kind = "Allow"
  /\ session = ("moat_username" :> "a") @@ ("cart" :> "3")

\* the request gives the credential check nothing that can succeed: no
\* header, not two tokens, another scheme, or a well-formed login that is
\* unknown or not staff
FailingLogin(r) ==
  \/ ~HasAuthorization(r)
  \/ /\ HasAuthorization(r)
     /\ LET h == r.META["HTTP_AUTHORIZATION"]
            auth == split_ws(h, "")
        IN  \/ Len(auth) # 2
            \/ Len(auth) = 2 /\ lower(auth[1]) # "basic"
            \/ \E u \in Usernames, p \in Passwords :
                 BasicHeaderFor(h, u, p) /\ ~IsStaffLogin(u, p)

\* C6: a request that reaches the credential check with a failing login is
\* answered 401 with WWW-Authenticate: Basic realm="<HTTP_AUTH_REALM or
\* empty>", and the session gets no moat_username.
C6_FailingLoginIsChallenged ==
  (Done /\ outcome.step = "auth" /\ FailingLogin(req))
    => /\ outcome.kind = "Challenge"
       /\ outcome.status_code = 401
       /\ outcome.WWW_Authenticate = ExpectedChallenge
       /\ "moat_username" \notin DOMAIN session

C6_Witness ==
  /\ Done /\ outcome.step = "auth" /\ HasAuthorization(req)
  /\ req.META["HTTP_AUTHORIZATION"] = "Basic " \o b64encode("b:y")
  /\ "HTTP_AUTH_REALM" \in DOMAIN settings
  /\ outcome.status_code = 401
  /\ outcome.WWW_Authenticate = "Basic realm=\"moat\""
  /\ "moat_username" \notin DOMAIN session

\* C7: while the session holds moat_username, every request on it is
\* allowed, whatever its path, transport and Authorization header, and the
\* session stays as it is.
C7_SessionFastPath ==
  [][(Processing /\ "moat_username" \in DOMAIN session)
      => (outcome'.kind = "Allow" /\ session' = session)]_vars

C7_Witness ==
  /\ Done /\ outcome.step = "session" /\ outcome.kind = "Allow"
  /\ outcome.moat_username = <<"a">>
  /\ Insecure(req) /\ HttpsEnforced /\ req.path = "/nope"
  /\ HasAuthorization(req) /\ req.META["HTTP_AUTHORIZATION"] = "Basic YQ"

\* C8: a request whose path is matched (anywhere, or from the start for a
\* "^" pattern) by a MOAT_ALWAYS_ALLOW_URLS pattern is allowed before the
\* session, the route, the transport or the credentials are looked at.
C8_UrlAllowListFirst ==
  (Done /\ UrlAllowListed(req))
    => (outcome.kind = "Allow" /\ outcome.step \in {"kill_switch", "url"})

C8_Witness ==
  /\ Done /\ ~EnabledFalse /\ req.path = "/shop/pub/x"
  /\ Insecure(req) /\ HttpsEnforced /\ ~HasAuthorization(req)
  /\ "moat_username" \notin DOMAIN session
  /\ outcome = ReturnNone("url")

\* C9: the session changes only when the credential check succeeds, and
\* then only by setting moat_username to the authenticated name; every
\* other key keeps its value and no key is ever removed.
C9_SessionFrame ==
  [][\/ session' = session
     \/ /\ pc = "pending"
        /\ outcome'.kind = "Allow" /\ outcome'.step = "auth"
        /\ DOMAIN session' = DOMAIN session \cup {"moat_username"}
        /\ \A k \in DOMAIN session \ {"moat_username"} :
             session'[k] = session[k]
        /\ \E p \in Passwords :
             /\ IsStaffLogin(session'["moat_username"], p)
             /\ BasicHeaderFor(req.META["HTTP_AUTHORIZATION"],
                               session'["moat_username"], p)]_vars

C9_Witness ==
  /\ Done /\ outcome.step = "auth" /\ outcome.kind = "Allow"
  /\ req.META["HTTP_AUTHORIZATION"] = "basic\t" \o b64encode("c:z")
  /\ session = ("moat_username" :> "c") @@ ("cart" :> "3")

\* C10: with requests of one session interleaved, a request is allowed
\* only when gating is off, its path is URL allow-listed, the session read
\* gave a moat_username, its route is allow-listed, or it is secure (or
\* HTTPS is not enforced) and carries a staff login; and moat_username is
\* always unset or a name authenticate() has answered with a staff user
\* on this session.
C10_NoBypass ==
  /\ (Done /\ outcome.kind = "Allow")
       => \/ EnabledFalse
          \/ UrlAllowListed(req)
          \/ outcome.moat_username # <<>>
          \/ RouteAllowListed(req)
          \/ (~Insecure(req) \/ ~HttpsEnforced) /\ PrivilegedLogin(req)
  /\ outcome.moat_username # <<>> => outcome.moat_username[1] \in verified
  /\ "moat_username" \in DOMAIN session
       => /\ session["moat_username"] \in verified
          /\ \E p \in Passwords : IsStaffLogin(session["moat_username"], p)

\* two staff logins raced on one session and the last write won
C10_Witness ==
  /\ Done /\ outcome = ReturnNone("auth")
  /\ HasAuthorization(req)
  /\ req.META["HTTP_AUTHORIZATION"] = "basic\t" \o b64encode("c:z")
  /\ verified = {"a", "c"}
  /\ session = ("moat_username" :> "c") @@ ("cart" :> "3")

====
